---- MODULE Spec2Model ----
(***************************************************************************)
(* The HT16K33 LED display drivers of time_counter_on_display.py: the      *)
(* generic controller class HT16K33 and its two display subclasses,        *)
(* HT16K33Segment (4-digit 7-segment) and HT16K33Segment14 (4-digit        *)
(* 14-segment, HT16K33 or VK16K33 wiring).                                 *)
(*                                                                         *)
(* A state is one driver instance: its class, its construction parameters, *)
(* its 16-byte display buffer and its rotation flag.  Every public method  *)
(* is one action.  A Python exception is the field "raised" of a method's  *)
(* result; the buffer of the result is the buffer as the exception left it.*)
(* The variables last, pre, written and rotations observe the most recent  *)
(* call: its name and arguments, the buffer before it, the transport       *)
(* writes it performed, and the number of rotate() calls so far.           *)
(***************************************************************************)
EXTENDS Integers, Sequences, FiniteSets, TLC

VARIABLES
    driver,       \* the class of the instance
    is_ht16k33,   \* HT16K33Segment14.is_ht16k33 (FALSE for HT16K33Segment)
    address,      \* HT16K33.address
    buffer,       \* self.buffer, a bytearray(16): [0..15 -> 0..255]
    is_rotated,   \* HT16K33Segment.is_rotated
    written,      \* the i2c.writeto calls of the most recent operation
    last,         \* the most recent call: name, arguments, exception raised
    pre,          \* self.buffer as it was when the most recent call began
    rotations,    \* number of rotate() calls since construction
    calls         \* number of calls since construction

vars == <<driver, is_ht16k33, address, buffer, is_rotated, written, last, pre,
          rotations, calls>>

\* ------------------------------------------------------------------ bounds

MaxCalls == 2
MaxGlyphCalls == 3
MaxRotateCalls == 4
MaxDigitCalls == 2
MaxCharCalls == 2

\* -------------------------------------------------- Python integers, strings

\* x & y on non-negative integers
RECURSIVE BitAnd(_, _)
BitAnd(x, y) ==
    IF x = 0 \/ y = 0 THEN 0
    ELSE (x % 2) * (y % 2) + 2 * BitAnd(x \div 2, y \div 2)

\* x | y on non-negative integers
BitOr(x, y) == x + y - BitAnd(x, y)

\* x << n and x >> n
Shl(x, n) == x * (2 ^ n)
Shr(x, n) == x \div (2 ^ n)

\* The printable ASCII characters, code points 32..126 in order (the four
\* quoting characters stand under their names).  A Python str is a sequence
\* of one-character strings.
ASCII ==
    <<" ", "!", "dquote", "#", "$", "%", "&", "quote", "(", ")", "*", "+", ",", "-", ".", "/",
      "0", "1", "2", "3", "4", "5", "6", "7", "8", "9", ":", ";", "<", "=", ">", "?",
      "@", "A", "B", "C", "D", "E", "F", "G", "H", "I", "J", "K", "L", "M", "N", "O",
      "P", "Q", "R", "S", "T", "U", "V", "W", "X", "Y", "Z", "[", "backslash", "]", "^", "_",
      "backtick", "a", "b", "c", "d", "e", "f", "g", "h", "i", "j", "k", "l", "m", "n", "o",
      "p", "q", "r", "s", "t", "u", "v", "w", "x", "y", "z", "{", "|", "}", "~">>

\* ord(c) of a one-character string
ord(c) == 31 + (CHOOSE i \in 1..Len(ASCII) : ASCII[i] = c)

\* chr(n)
chr(n) == ASCII[n - 31]

\* str(number) of an int in 0..9
str(number) == <<chr(48 + number)>>

\* char.lower()
lower(char) ==
    [i \in 1..Len(char) |->
        IF 65 <= ord(char[i]) /\ ord(char[i]) <= 90 THEN chr(ord(char[i]) + 32)
        ELSE char[i]]

\* The Python test  s in t  for two strings: s is a contiguous part of t
StrIn(s, t) ==
    \E i \in 0..(Len(t) - Len(s)) : SubSeq(t, i + 1, i + Len(s)) = s

HexLetters == <<"a", "b", "c", "d", "e", "f">>
DecimalDigits == <<"0", "1", "2", "3", "4", "5", "6", "7", "8", "9">>
UpperLetters == SubSeq(ASCII, 34, 59)
LowerLetters == SubSeq(ASCII, 66, 91)

\* --------------------------------------------------------- results of a call

\* The call returned: the buffer it leaves.
Returned(buf) == [buffer |-> buf, raised |-> "none"]

\* The call raised exception e with the buffer as buf.
Raised(buf, e) == [buffer |-> buf, raised |-> e]

\* ------------------------------------------------------------ class HT16K33

HT16K33_GENERIC_DISPLAY_ON == 129
HT16K33_GENERIC_SYSTEM_ON == 33

\* i2c.writeto(self.address, bytes(data))
writeto(addr, data) == [address |-> addr, data |-> data]

\* _write_cmd(byte)
HT16K33_write_cmd(addr, byte) == writeto(addr, <<byte>>)

\* power_on(): two command writes
HT16K33_power_on(addr) ==
    <<HT16K33_write_cmd(addr, HT16K33_GENERIC_SYSTEM_ON),
      HT16K33_write_cmd(addr, HT16K33_GENERIC_DISPLAY_ON)>>

\* RenderBytes without the leading command byte: the buffer alone
RenderBytes_NoCommandByte(buf) == [i \in 1..16 |-> buf[i - 1]]

\* The 17 bytes _render() builds: a bytearray one longer than the buffer, the
\* buffer copied to [1:], byte 0 set to 0x00.
RenderBytes(buf) ==
    [i \in 1..17 |-> IF i = 1 THEN 0 ELSE buf[i - 2]]

\* _render(): one write of the 17 bytes
HT16K33_render(addr, buf) == <<writeto(addr, RenderBytes(buf))>>

\* clear(): every buffer byte set to 0x00
HT16K33_clear(buf) == [i \in DOMAIN buf |-> 0]

\* bytearray(16)
ZeroBuffer == [i \in 0..15 |-> 0]

\* ----------------------------------------------------- class HT16K33Segment

HT16K33_SEGMENT_COLON_ROW == 4
HT16K33_SEGMENT_MINUS_CHAR == 16
HT16K33_SEGMENT_DEGREE_CHAR == 17
HT16K33_SEGMENT_SPACE_CHAR == 18

\* POS[digit], the buffer index of each digit
POS == [digit \in 0..3 |-> <<0, 2, 6, 8>>[digit + 1]]

\* CHARSET[i] of the 7-segment class: 0-9, A-F, minus, degree, space
Segment_CHARSET ==
    [i \in 0..18 |->
        <<63, 6, 91, 79, 102, 109, 125, 7, 127, 111,
          95, 124, 88, 94, 123, 113, 64, 99, 0>>[i + 1]]

\* Segment_store that ORs the value into the byte it should overwrite
Segment_store_OrOnly(buf, value, digit, has_dot) ==
    LET b1 == [buf EXCEPT ![POS[digit]] = BitOr(@, value)]
    IN  IF has_dot THEN [b1 EXCEPT ![POS[digit]] = BitOr(@, 128)] ELSE b1

\* The two statements every 7-segment writer ends with:
\*   self.buffer[self.POS[digit]] = value
\*   if has_dot is True: self.buffer[self.POS[digit]] |= 0x80
Segment_store(buf, value, digit, has_dot) ==
    LET b1 == [buf EXCEPT ![POS[digit]] = value]
    IN  IF has_dot THEN [b1 EXCEPT ![POS[digit]] = BitOr(@, 128)] ELSE b1

\* assert 0 <= digit < 4
DigitOk(digit) == 0 <= digit /\ digit < 4

\* Segment_GlyphOk with the upper limit included
Segment_GlyphOk_Inclusive(glyph) == 0 <= glyph /\ glyph <= 128

\* assert 0 <= glyph < 0x80
Segment_GlyphOk(glyph) == 0 <= glyph /\ glyph < 128

\* assert 0 <= number < 10
NumberOk(number) == 0 <= number /\ number < 10

\* HT16K33Segment.set_glyph(glyph, digit, has_dot)
HT16K33Segment_set_glyph(buf, glyph, digit, has_dot) ==
    IF ~DigitOk(digit) THEN Raised(buf, "AssertionError")
    ELSE IF ~Segment_GlyphOk(glyph) THEN Raised(buf, "AssertionError")
    ELSE Returned(Segment_store(buf, glyph, digit, has_dot))

\* The charset index set_character derives from char: char_val, or the
\* exception the derivation raises (ord() of a str whose length is not 1).
Segment_char_val(char) ==
    LET c == lower(char)
    IN  IF c = <<"d", "e", "g">> THEN [val |-> HT16K33_SEGMENT_DEGREE_CHAR, raised |-> "none"]
        ELSE IF c = <<"-">> THEN [val |-> HT16K33_SEGMENT_MINUS_CHAR, raised |-> "none"]
        ELSE IF c = <<" ">> THEN [val |-> HT16K33_SEGMENT_SPACE_CHAR, raised |-> "none"]
        ELSE IF StrIn(c, HexLetters)
             THEN IF Len(c) = 1 THEN [val |-> ord(c[1]) - 87, raised |-> "none"]
                  ELSE [val |-> 255, raised |-> "TypeError"]
        ELSE IF StrIn(c, DecimalDigits)
             THEN IF Len(c) = 1 THEN [val |-> ord(c[1]) - 48, raised |-> "none"]
                  ELSE [val |-> 255, raised |-> "TypeError"]
        ELSE [val |-> 255, raised |-> "none"]

\* HT16K33Segment.set_character(char, digit, has_dot)
HT16K33Segment_set_character(buf, char, digit, has_dot) ==
    IF ~DigitOk(digit) THEN Raised(buf, "AssertionError")
    ELSE LET cv == Segment_char_val(char)
         IN  IF cv.raised # "none" THEN Raised(buf, cv.raised)
             ELSE IF cv.val = 255 THEN Raised(buf, "AssertionError")
             ELSE Returned(Segment_store(buf, Segment_CHARSET[cv.val], digit, has_dot))

\* HT16K33Segment.set_number(number, digit, has_dot)
HT16K33Segment_set_number(buf, number, digit, has_dot) ==
    IF ~DigitOk(digit) THEN Raised(buf, "AssertionError")
    ELSE IF ~NumberOk(number) THEN Raised(buf, "AssertionError")
    ELSE HT16K33Segment_set_character(buf, str(number), digit, has_dot)

\* HT16K33Segment.set_colon(is_set)
HT16K33Segment_set_colon(buf, is_set) ==
    Returned([buf EXCEPT ![HT16K33_SEGMENT_COLON_ROW] = IF is_set THEN 2 ELSE 0])

\* rotate() that sets the flag where it should toggle it
HT16K33Segment_rotate_SetOnly(rot) == TRUE

\* HT16K33Segment.rotate(): the new value of is_rotated
HT16K33Segment_rotate(rot) == ~rot

\* SwapBytes without the temporary: buffer[i] = buffer[j]; buffer[j] = buffer[i]
SwapBytes_NoTemporary(buf, i, j) == [buf EXCEPT ![i] = buf[j]]

\* a = buffer[i]; buffer[i] = buffer[j]; buffer[j] = a
SwapBytes(buf, i, j) == [buf EXCEPT ![i] = buf[j], ![j] = buf[i]]

\* One pass of the loop "Rotate each digit" of draw():
\*   b = (a & 0x07) << 3;  c = (a & 0x38) >> 3;  a &= 0xC0;  a | b | c
RotateDigit(a) ==
    LET b == Shl(BitAnd(a, 7), 3)
        c == Shr(BitAnd(a, 56), 3)
    IN  BitOr(BitOr(BitAnd(a, 192), b), c)

\* The in-place layout transform of draw() when is_rotated
Segment_rotated(buf) ==
    LET s1 == SwapBytes(buf, POS[0], POS[3])
        s2 == SwapBytes(s1, POS[1], POS[2])
    IN  [i \in DOMAIN s2 |->
            IF \E k \in 0..3 : POS[k] = i THEN RotateDigit(s2[i]) ELSE s2[i]]

\* HT16K33Segment.draw(): the buffer it leaves
HT16K33Segment_draw(buf, rot) == IF rot THEN Segment_rotated(buf) ELSE buf

\* HT16K33.update(), which neither subclass overrides: it calls _render()
\* and not the draw() of the subclass; the buffer it leaves
HT16K33_update(buf) == buf

\* --------------------------------------------------- class HT16K33Segment14

HT16K33_SEG14_DP_VALUE == 16384
HT16K33_SEG14_BLANK_CHAR == 62
HT16K33_SEG14_DQUOTE_CHAR == 64
HT16K33_SEG14_DOLLAR_CHAR == 66
HT16K33_SEG14_STAR_CHAR == 72
HT16K33_SEG14_PLUS_CHAR == 73
HT16K33_SEG14_MINUS_CHAR == 74
HT16K33_SEG14_DIVSN_CHAR == 75
HT16K33_SEG14_CHAR_COUNT == 76
VK16K33_SEG14_COLON_BYTE == 1
VK16K33_SEG14_DECIMAL_BYTE == 3

\* CHARSET[i] of the 14-segment class: 76 entries of two bytes, MSB first
Segment14_CHARSET ==
    [i \in 0..151 |->
        <<36, 63, 0, 6, 0, 219, 0, 143, 0, 230, 0, 237, 0, 253, 0, 7,
          0, 255, 0, 239, 0, 247, 18, 143, 0, 57, 18, 15, 0, 121, 0, 113,
          0, 189, 0, 246, 18, 9, 0, 30, 12, 112, 0, 56, 5, 54, 9, 54,
          0, 63, 0, 243, 8, 63, 8, 243, 0, 237, 18, 1, 0, 62, 36, 48,
          40, 54, 45, 0, 21, 0, 36, 9, 16, 88, 8, 120, 0, 216, 32, 142,
          32, 88, 36, 128, 4, 142, 16, 112, 16, 0, 8, 6, 30, 0, 32, 48,
          16, 212, 16, 80, 0, 220, 1, 112, 4, 134, 0, 80, 8, 136, 0, 120,
          0, 28, 8, 4, 40, 20, 45, 0, 37, 0, 32, 72, 0, 0, 0, 6,
          2, 32, 16, 131, 18, 237, 36, 36, 0, 227, 4, 0, 9, 0, 32, 0,
          63, 192, 18, 192, 0, 192, 36, 0>>[i + 1]]

\* (self.CHARSET[code << 1] << 8) | self.CHARSET[(code << 1) + 1]
Segment14_pattern(code) ==
    BitOr(Shl(Segment14_CHARSET[Shl(code, 1)], 8), Segment14_CHARSET[Shl(code, 1) + 1])

\* SwapBits11And13 that moves bit 3 to bit 5 and loses bit 5
SwapBits11And13_OneWay(msb) ==
    BitOr(BitAnd(msb, 215), Shl(BitAnd(msb, 8), 2))

\* The MSB as _set_digit stores it for the HT16K33: bits 3 and 5 exchanged
\*   b11 = msb & 0x08; b13 = msb & 0x20; msb &= 0xD7;
\*   msb |= (b11 << 2); msb |= (b13 >> 2)
SwapBits11And13(msb) ==
    LET b11 == BitAnd(msb, 8)
        b13 == BitAnd(msb, 32)
        m1 == BitAnd(msb, 215)
        m2 == BitOr(m1, Shl(b11, 2))
    IN  BitOr(m2, Shr(b13, 2))

\* The HT16K33 branch of _set_digit with the two bytes in the other order
Segment14_set_digit_ht16k33_MsbFirst(buf, value, digit, has_dot) ==
    LET v == IF has_dot THEN BitOr(value, HT16K33_SEG14_DP_VALUE) ELSE value
        msb == SwapBits11And13(BitAnd(Shr(v, 8), 255))
        b1 == [buf EXCEPT ![Shl(digit, 1)] = msb]
    IN  Returned([b1 EXCEPT ![Shl(digit, 1) + 1] = BitAnd(v, 255)])

\* The HT16K33 branch of _set_digit without the decimal point
Segment14_set_digit_ht16k33_NoDot(buf, value, digit, has_dot) ==
    LET msb == SwapBits11And13(BitAnd(Shr(value, 8), 255))
        b1 == [buf EXCEPT ![Shl(digit, 1) + 1] = msb]
    IN  Returned([b1 EXCEPT ![Shl(digit, 1)] = BitAnd(value, 255)])

\* The HT16K33 branch of _set_digit
Segment14_set_digit_ht16k33(buf, value, digit, has_dot) ==
    LET v == IF has_dot THEN BitOr(value, HT16K33_SEG14_DP_VALUE) ELSE value
        msb == SwapBits11And13(BitAnd(Shr(v, 8), 255))
        b1 == [buf EXCEPT ![Shl(digit, 1) + 1] = msb]
    IN  Returned([b1 EXCEPT ![Shl(digit, 1)] = BitAnd(v, 255)])

\* The VK16K33 branch of _set_digit from pass i of its loop on, with the
\* loop variables a and d: a set bit i ORs d << digit into buffer[a], which
\* raises IndexError, the earlier passes written, when a is past the buffer.
RECURSIVE Segment14_set_digit_vk16k33(_, _, _, _, _, _)
Segment14_set_digit_vk16k33(buf, value, digit, i, a, d) ==
    IF i = 16 THEN Returned(buf)
    ELSE IF BitAnd(value, Shl(1, i)) # 0 /\ a \notin DOMAIN buf
         THEN Raised(buf, "IndexError")
    ELSE LET b1 == IF BitAnd(value, Shl(1, i)) # 0
                   THEN [buf EXCEPT ![a] = BitOr(@, Shl(d, digit))]
                   ELSE buf
         IN  IF i = 6
             THEN Segment14_set_digit_vk16k33(b1, value, digit, i + 1, 0, 16)
             ELSE Segment14_set_digit_vk16k33(b1, value, digit, i + 1, a + 2, d)

\* HT16K33Segment14._set_digit(value, digit, has_dot)
HT16K33Segment14_set_digit(buf, ht, value, digit, has_dot) ==
    IF ht THEN Segment14_set_digit_ht16k33(buf, value, digit, has_dot)
    ELSE Segment14_set_digit_vk16k33(buf, value, digit, 0, 0, 1)

\* assert 0 <= glyph < 0xFFFF
Segment14_GlyphOk(glyph) == 0 <= glyph /\ glyph < 65535

\* assert 0 <= code < self.HT16K33_SEG14_CHAR_COUNT
CodeOk(code) == 0 <= code /\ code < HT16K33_SEG14_CHAR_COUNT

\* HT16K33Segment14.set_glyph(glyph, digit, has_dot)
HT16K33Segment14_set_glyph(buf, ht, glyph, digit, has_dot) ==
    IF ~DigitOk(digit) THEN Raised(buf, "AssertionError")
    ELSE IF ~Segment14_GlyphOk(glyph) THEN Raised(buf, "AssertionError")
    ELSE HT16K33Segment14_set_digit(buf, ht, glyph, digit, has_dot)

\* The charset index set_character derives from char: char_val, or the
\* exception the derivation raises (ord() of a str whose length is not 1).
Segment14_char_val(char) ==
    IF char = <<"-">> THEN [val |-> HT16K33_SEG14_MINUS_CHAR, raised |-> "none"]
    ELSE IF char = <<"*">> THEN [val |-> HT16K33_SEG14_STAR_CHAR, raised |-> "none"]
    ELSE IF char = <<"+">> THEN [val |-> HT16K33_SEG14_PLUS_CHAR, raised |-> "none"]
    ELSE IF char = <<" ">> THEN [val |-> HT16K33_SEG14_BLANK_CHAR, raised |-> "none"]
    ELSE IF char = <<"/">> THEN [val |-> HT16K33_SEG14_DIVSN_CHAR, raised |-> "none"]
    ELSE IF char = <<"$">> THEN [val |-> HT16K33_SEG14_DOLLAR_CHAR, raised |-> "none"]
    ELSE IF char = <<":">> THEN [val |-> HT16K33_SEG14_DQUOTE_CHAR, raised |-> "none"]
    ELSE IF StrIn(char, DecimalDigits)
         THEN IF Len(char) = 1 THEN [val |-> ord(char[1]) - 48, raised |-> "none"]
              ELSE [val |-> 65535, raised |-> "TypeError"]
    ELSE IF StrIn(char, UpperLetters)
         THEN IF Len(char) = 1 THEN [val |-> ord(char[1]) - 55, raised |-> "none"]
              ELSE [val |-> 65535, raised |-> "TypeError"]
    ELSE IF StrIn(char, LowerLetters)
         THEN IF Len(char) = 1 THEN [val |-> ord(char[1]) - 61, raised |-> "none"]
              ELSE [val |-> 65535, raised |-> "TypeError"]
    ELSE [val |-> 65535, raised |-> "none"]

\* HT16K33Segment14.set_character(char, digit, has_dot).  The message of the
\* failing assert holds str(ord(char)), which raises TypeError in place of
\* the AssertionError when char is not one character long.
HT16K33Segment14_set_character(buf, ht, char, digit, has_dot) ==
    IF ~DigitOk(digit) THEN Raised(buf, "AssertionError")
    ELSE LET cv == Segment14_char_val(char)
         IN  IF cv.raised # "none" THEN Raised(buf, cv.raised)
             ELSE IF cv.val = 65535
                  THEN Raised(buf, IF Len(char) = 1 THEN "AssertionError" ELSE "TypeError")
             ELSE HT16K33Segment14_set_digit(buf, ht, Segment14_pattern(cv.val), digit, has_dot)

\* HT16K33Segment14.set_number(number, digit, has_dot)
HT16K33Segment14_set_number(buf, ht, number, digit, has_dot) ==
    IF ~DigitOk(digit) THEN Raised(buf, "AssertionError")
    ELSE IF ~NumberOk(number) THEN Raised(buf, "AssertionError")
    ELSE HT16K33Segment14_set_character(buf, ht, str(number), digit, has_dot)

\* HT16K33Segment14.set_code(code, digit, has_dot)
HT16K33Segment14_set_code(buf, ht, code, digit, has_dot) ==
    IF ~DigitOk(digit) THEN Raised(buf, "AssertionError")
    ELSE IF ~CodeOk(code) THEN Raised(buf, "AssertionError")
    ELSE HT16K33Segment14_set_digit(buf, ht, Segment14_pattern(code), digit, has_dot)

\* HT16K33Segment14.set_colon(is_on)
HT16K33Segment14_set_colon(buf, ht, is_on) ==
    IF ht THEN Returned(buf)
    ELSE IF is_on
         THEN Returned([buf EXCEPT ![VK16K33_SEG14_COLON_BYTE] = BitOr(@, 1)])
         ELSE Returned([buf EXCEPT ![VK16K33_SEG14_COLON_BYTE] = BitAnd(@, 254)])

\* HT16K33Segment14.set_decimal(is_on)
HT16K33Segment14_set_decimal(buf, ht, is_on) ==
    IF ht THEN Returned(buf)
    ELSE IF is_on
         THEN Returned([buf EXCEPT ![VK16K33_SEG14_DECIMAL_BYTE] = BitOr(@, 1)])
         ELSE Returned([buf EXCEPT ![VK16K33_SEG14_DECIMAL_BYTE] = BitAnd(@, 127)])

\* HT16K33.draw(), which HT16K33Segment14 inherits: the buffer it leaves
HT16K33_draw(buf) == buf

\* ------------------------------------------------------------- construction

\* i2c_address=0x70, the default of both subclasses
DefaultAddress == 112

\* The observation of a call: its name, its arguments, what it raised
Observed(op, num, char, digit, flag, raised) ==
    [op |-> op, num |-> num, char |-> char, digit |-> digit, has_dot |-> flag,
     raised |-> raised]

\* cls(i2c) or cls(i2c, is_ht16k33=ht): the buffer zero-filled, the flags
\* set, then HT16K33.__init__ stores the address and powers the chip on.
Constructed(cls, ht) ==
    /\ driver = cls
    /\ is_ht16k33 = ht
    /\ address = DefaultAddress
    /\ buffer = ZeroBuffer
    /\ is_rotated = FALSE
    /\ written = HT16K33_power_on(DefaultAddress)
    /\ last = Observed("__init__", 0, <<>>, 0, FALSE, "none")
    /\ pre = ZeroBuffer
    /\ rotations = 0
    /\ calls = 0

Init ==
    \/ Constructed("HT16K33Segment", FALSE)
    \/ \E ht \in BOOLEAN : Constructed("HT16K33Segment14", ht)

\* ------------------------------------------------------------------ actions

\* One call of a public method with result r and transport writes w
Call(op, num, char, digit, flag, r, w) ==
    /\ buffer' = r.buffer
    /\ written' = w
    /\ last' = Observed(op, num, char, digit, flag, r.raised)
    /\ pre' = buffer
    /\ calls' = calls + 1
    /\ UNCHANGED <<driver, is_ht16k33, address>>

set_glyph(glyph, digit, has_dot) ==
    /\ Call("set_glyph", glyph, <<>>, digit, has_dot,
            IF driver = "HT16K33Segment"
            THEN HT16K33Segment_set_glyph(buffer, glyph, digit, has_dot)
            ELSE HT16K33Segment14_set_glyph(buffer, is_ht16k33, glyph, digit, has_dot),
            <<>>)
    /\ UNCHANGED <<is_rotated, rotations>>

set_number(number, digit, has_dot) ==
    /\ Call("set_number", number, <<>>, digit, has_dot,
            IF driver = "HT16K33Segment"
            THEN HT16K33Segment_set_number(buffer, number, digit, has_dot)
            ELSE HT16K33Segment14_set_number(buffer, is_ht16k33, number, digit, has_dot),
            <<>>)
    /\ UNCHANGED <<is_rotated, rotations>>

set_character(char, digit, has_dot) ==
    /\ Call("set_character", 0, char, digit, has_dot,
            IF driver = "HT16K33Segment"
            THEN HT16K33Segment_set_character(buffer, char, digit, has_dot)
            ELSE HT16K33Segment14_set_character(buffer, is_ht16k33, char, digit, has_dot),
            <<>>)
    /\ UNCHANGED <<is_rotated, rotations>>

\* set_code exists on HT16K33Segment14 only
set_code(code, digit, has_dot) ==
    /\ driver = "HT16K33Segment14"
    /\ Call("set_code", code, <<>>, digit, has_dot,
            HT16K33Segment14_set_code(buffer, is_ht16k33, code, digit, has_dot), <<>>)
    /\ UNCHANGED <<is_rotated, rotations>>

set_colon(is_set) ==
    /\ Call("set_colon", 0, <<>>, 0, is_set,
            IF driver = "HT16K33Segment"
            THEN HT16K33Segment_set_colon(buffer, is_set)
            ELSE HT16K33Segment14_set_colon(buffer, is_ht16k33, is_set),
            <<>>)
    /\ UNCHANGED <<is_rotated, rotations>>

\* set_decimal exists on HT16K33Segment14 only
set_decimal(is_on) ==
    /\ driver = "HT16K33Segment14"
    /\ Call("set_decimal", 0, <<>>, 0, is_on,
            HT16K33Segment14_set_decimal(buffer, is_ht16k33, is_on), <<>>)
    /\ UNCHANGED <<is_rotated, rotations>>

\* rotate exists on HT16K33Segment only
rotate ==
    /\ driver = "HT16K33Segment"
    /\ Call("rotate", 0, <<>>, 0, FALSE, Returned(buffer), <<>>)
    /\ is_rotated' = HT16K33Segment_rotate(is_rotated)
    /\ rotations' = rotations + 1

clear ==
    /\ Call("clear", 0, <<>>, 0, FALSE, Returned(HT16K33_clear(buffer)), <<>>)
    /\ UNCHANGED <<is_rotated, rotations>>

\* draw(): HT16K33Segment overrides it, HT16K33Segment14 inherits it; both
\* end in _render() of the buffer as the method left it.
draw ==
    /\ LET b == IF driver = "HT16K33Segment"
                THEN HT16K33Segment_draw(buffer, is_rotated)
                ELSE HT16K33_draw(buffer)
       IN  Call("draw", 0, <<>>, 0, FALSE, Returned(b), HT16K33_render(address, b))
    /\ UNCHANGED <<is_rotated, rotations>>

\* update(): inherited from HT16K33 by both subclasses
update ==
    /\ LET b == HT16K33_update(buffer)
       IN  Call("update", 0, <<>>, 0, FALSE, Returned(b), HT16K33_render(address, b))
    /\ UNCHANGED <<is_rotated, rotations>>

\* ------------------------------------------- the drivers under their callers

\* Spec: either driver under every public method, up to MaxCalls calls.
\* The arguments are valid ones and ones each check rejects: digits -1 and 4,
\* glyphs -1, 0x80 and 0xFFFF, numbers -1 and 10, codes -1 and 76, and the
\* strings "!", "" and "ab".  Glyph 0x0849 has bits 0, 3, 6 and 11; glyph
\* 0xC081 has bits 0, 7, 14 and 15.
DigitArgs == -1..4
GlyphArgs ==
    IF driver = "HT16K33Segment" THEN {-1, 75, 128} ELSE {2121, 49281, 65535}
CharArgs ==
    IF driver = "HT16K33Segment" THEN {<<"F">>, <<"!">>, <<>>}
    ELSE {<<"m">>, <<"!">>, <<"a", "b">>}
NumberArgs == {-1, 7, 10}
CodeArgs == {-1, 72, 76}

Next ==
    \/ calls < MaxCalls /\ \E g \in GlyphArgs, d \in DigitArgs, dot \in BOOLEAN :
            set_glyph(g, d, dot)
    \/ calls < MaxCalls /\ \E n \in NumberArgs, d \in {1, 4}, dot \in BOOLEAN :
            set_number(n, d, dot)
    \/ calls < MaxCalls /\ \E c \in CharArgs, d \in DigitArgs, dot \in BOOLEAN :
            set_character(c, d, dot)
    \/ calls < MaxCalls /\ \E k \in CodeArgs, d \in {-1, 2}, dot \in BOOLEAN :
            set_code(k, d, dot)
    \/ calls < MaxCalls /\ \E on \in BOOLEAN : set_colon(on)
    \/ calls < MaxCalls /\ \E on \in BOOLEAN : set_decimal(on)
    \/ calls < MaxCalls /\ rotate
    \/ calls < MaxCalls /\ clear
    \/ calls < MaxCalls /\ draw
    \/ calls < MaxCalls /\ update

Spec == Init /\ [][Next]_vars

\* SpecGlyph: either driver under set_glyph and clear, every digit, up to
\* MaxGlyphCalls calls.  Glyph 0x6001 has bits 0, 13 and 14; 0xFFFE is the
\* largest glyph the 14-segment check accepts.
AcceptedGlyphs ==
    IF driver = "HT16K33Segment" THEN {0, 75, 127} ELSE {2121, 24577, 65534}

NextGlyph ==
    \/ calls < MaxGlyphCalls /\ \E g \in AcceptedGlyphs, d \in 0..3, dot \in BOOLEAN :
            set_glyph(g, d, dot)
    \/ calls < MaxGlyphCalls /\ clear

SpecGlyph == Init /\ [][NextGlyph]_vars

\* SpecRotate: the 7-segment driver under set_glyph, set_colon, rotate, draw
\* and update, up to MaxRotateCalls calls.  Glyph 0x4B has bits 0, 1, 3, 6.
NextRotate ==
    \/ calls < MaxRotateCalls /\ \E d \in 0..3, dot \in BOOLEAN : set_glyph(75, d, dot)
    \/ calls < MaxRotateCalls /\ set_colon(TRUE)
    \/ calls < MaxRotateCalls /\ rotate
    \/ calls < MaxRotateCalls /\ draw
    \/ calls < MaxRotateCalls /\ update

SpecRotate == Constructed("HT16K33Segment", FALSE) /\ [][NextRotate]_vars

\* SpecChar: the 7-segment driver; one set_character call, with every string
\* of Segment_Strings, on a buffer that up to MaxCharCalls set_glyph calls
\* have written.
Segment_Strings ==
    {<<ASCII[i]>> : i \in 1..Len(ASCII)} \cup {<<"d", "e", "g">>, <<"D", "E", "G">>, <<>>}

NextChar ==
    \/ calls < MaxCharCalls /\ last.op # "set_character"
         /\ \E d \in 0..3, dot \in BOOLEAN : set_glyph(127, d, dot)
    \/ last.op # "set_character"
         /\ \E c \in Segment_Strings, d \in 0..3, dot \in BOOLEAN : set_character(c, d, dot)

SpecChar == Constructed("HT16K33Segment", FALSE) /\ [][NextChar]_vars

\* SpecDigit: the 14-segment driver in HT16K33 mode under its digit writer
\* _set_digit, called with 16-bit values of every combination of bits 11, 13
\* and 14 (0x0000, 0x08A5, 0x2001, 0x28FF, 0x4000, 0x97C3, 0xD7FF, 0xFFFF),
\* up to MaxDigitCalls calls.
set_digit(value, digit, has_dot) ==
    /\ driver = "HT16K33Segment14"
    /\ Call("_set_digit", value, <<>>, digit, has_dot,
            HT16K33Segment14_set_digit(buffer, is_ht16k33, value, digit, has_dot), <<>>)
    /\ UNCHANGED <<is_rotated, rotations>>

DigitValues == {0, 2213, 8193, 10495, 16384, 38851, 55295, 65535}

NextDigit ==
    calls < MaxDigitCalls /\ \E v \in DigitValues, d \in 0..3, dot \in BOOLEAN :
        set_digit(v, d, dot)

SpecDigit == Constructed("HT16K33Segment14", TRUE) /\ [][NextDigit]_vars

\* ------------------------------------------------------------ the properties

\* Bit i of the non-negative integer x
Bit(x, i) == (x \div (2 ^ i)) % 2

\* x with bit i set
WithBit(x, i) == IF Bit(x, i) = 1 THEN x ELSE x + 2 ^ i

\* x with bits i and j exchanged
Exchanged(x, i, j) ==
    x - Bit(x, i) * 2 ^ i - Bit(x, j) * 2 ^ j + Bit(x, j) * 2 ^ i + Bit(x, i) * 2 ^ j

\* The buffer index of each 7-segment digit, as the claims state it
DigitIndex == <<0, 2, 6, 8>>

\* The strings each set_character supports
DegreeStrings == {<<x, y, z>> : x \in {"d", "D"}, y \in {"e", "E"}, z \in {"g", "G"}}
HexStrings == {<<c>> : c \in {"a", "b", "c", "d", "e", "f", "A", "B", "C", "D", "E", "F"}}
DigitStrings == {<<c>> : c \in {"0", "1", "2", "3", "4", "5", "6", "7", "8", "9"}}
LetterStrings == {<<ASCII[i]>> : i \in (34..59) \cup (66..91)}
Segment_Supported == DegreeStrings \cup {<<"-">>, <<" ">>} \cup HexStrings \cup DigitStrings
Segment14_Supported ==
    {<<c>> : c \in {"-", "*", "+", " ", "/", "$", ":"}} \cup DigitStrings \cup LetterStrings

\* The last call was a digit writer of the public interface
IsSet == last.op \in {"set_glyph", "set_number", "set_character", "set_code"}

\* The last call had an argument its method rejects
Rejected ==
    \/ IsSet /\ last.digit \notin 0..3
    \/ last.op = "set_glyph" /\ driver = "HT16K33Segment" /\ last.num \notin 0..127
    \/ last.op = "set_glyph" /\ driver = "HT16K33Segment14" /\ last.num \notin 0..65534
    \/ last.op = "set_number" /\ last.num \notin 0..9
    \/ last.op = "set_code" /\ last.num \notin 0..75
    \/ last.op = "set_character" /\ driver = "HT16K33Segment"
         /\ last.char \notin Segment_Supported
    \/ last.op = "set_character" /\ driver = "HT16K33Segment14"
         /\ last.char \notin Segment14_Supported

\* C1: a set_glyph, set_number, set_character or set_code call with an
\* argument its method rejects (digit outside [0,4), glyph outside the
\* accepted range, number outside [0,10), code outside [0,76), unsupported
\* character) raises and leaves all 16 buffer bytes as they were.
C1_RejectedCallLeavesBuffer ==
    Rejected => last.raised # "none" /\ buffer = pre

\* C1 happens: a rejected call on a buffer that an earlier call has written
C1_Witness ==
    Rejected /\ last.raised # "none" /\ pre # ZeroBuffer /\ buffer = pre

\* The charset index the 7-segment claims give each supported string
SegmentIndex(c) ==
    IF c \in DegreeStrings THEN 17
    ELSE IF c = <<"-">> THEN 16
    ELSE IF c = <<" ">> THEN 18
    ELSE IF c \in HexStrings
         THEN 9 + (CHOOSE i \in 1..6 :
                     c[1] = <<"a", "b", "c", "d", "e", "f">>[i]
                     \/ c[1] = <<"A", "B", "C", "D", "E", "F">>[i])
    ELSE (CHOOSE i \in 1..10 : c[1] = DecimalDigits[i]) - 1

\* C2: in the 7-segment driver, set_character(c, d, has_dot) with a digit in
\* [0,4) and a supported c ("deg", '-', ' ', a-f in either case, 0-9) returns
\* with buffer[POS[d]] = CHARSET[index(c)] OR 0x80-if-has_dot, whatever the
\* byte held before; '5' at digit 0 gives 0x6D, and 0xED with the dot.
C2_SetCharacterStoresCharset ==
    (/\ driver = "HT16K33Segment"
     /\ last.op = "set_character"
     /\ last.digit \in 0..3
     /\ last.char \in Segment_Supported)
    => /\ last.raised = "none"
       /\ buffer[DigitIndex[last.digit + 1]]
            = Segment_CHARSET[SegmentIndex(last.char)] + (IF last.has_dot THEN 128 ELSE 0)
       /\ (last.char = <<"5">> /\ last.digit = 0)
            => buffer[0] = (IF last.has_dot THEN 237 ELSE 109)

\* C2 happens: '5' with the dot written to digit 0 over a byte that held 0xFF
C2_Witness ==
    /\ driver = "HT16K33Segment"
    /\ last.op = "set_character"
    /\ last.char = <<"5">>
    /\ last.digit = 0
    /\ last.has_dot
    /\ pre[0] = 255
    /\ buffer[0] = 237

\* The bits of digit d gathered from the VK16K33 bit planes: bit i < 7 is
\* bit d of buffer[2i], bit i in 7..14 is bit d+4 of buffer[2(i-7)]
RECURSIVE Gathered(_, _, _)
Gathered(buf, d, i) ==
    IF i = 15 THEN 0
    ELSE (IF i < 7 THEN Bit(buf[2 * i], d) ELSE Bit(buf[2 * (i - 7)], d + 4)) * 2 ^ i
         + Gathered(buf, d, i + 1)

\* The two bytes of digit d read as one number, low byte first
ReadBack(buf, d) == buf[2 * d] + 256 * buf[2 * d + 1]

\* C3: in the 14-segment driver, under either convention, after
\* set_character(c, d) returns, the bits of digit d in the buffer are exactly
\* the convention-encoded charset pattern of c, whatever was written to the
\* digit before.
C3_DigitShowsLastCharacter ==
    (/\ driver = "HT16K33Segment14"
     /\ last.op = "set_character"
     /\ last.raised = "none"
     /\ ~last.has_dot)
    => LET p == Segment14_pattern(Segment14_char_val(last.char).val)
       IN  IF is_ht16k33 THEN ReadBack(buffer, last.digit) = Exchanged(p, 11, 13)
           ELSE Gathered(buffer, last.digit, 0) = p

\* The last call was set_glyph on a zero buffer with arguments it accepts
GlyphOnZeroBuffer ==
    /\ last.op = "set_glyph"
    /\ pre = ZeroBuffer
    /\ last.digit \in 0..3
    /\ last.num \in (IF driver = "HT16K33Segment" THEN 0..127 ELSE 0..65534)

\* C4 as stated: set_glyph(g, d, has_dot) on a zero buffer reads back as g
\* plus the dot bit: buffer[POS[d]] with dot 0x80 (7-segment), buffer[2d] +
\* 256*buffer[2d+1] with dot 0x4000 (14-segment, HT16K33), the gathered
\* bit-plane bits with dot 0x4000 (14-segment, VK16K33).
C4_RoundTripAsStated ==
    GlyphOnZeroBuffer
    => /\ last.raised = "none"
       /\ IF driver = "HT16K33Segment"
          THEN buffer[DigitIndex[last.digit + 1]]
                 = (IF last.has_dot THEN WithBit(last.num, 7) ELSE last.num)
          ELSE (IF is_ht16k33 THEN ReadBack(buffer, last.digit)
                ELSE Gathered(buffer, last.digit, 0))
                 = (IF last.has_dot THEN WithBit(last.num, 14) ELSE last.num)

\* C4 amended: on a zero buffer, the 7-segment read-back is g plus dot bit
\* 0x80; the 14-segment HT16K33 read-back is g plus dot bit 0x4000 with bits
\* 11 and 13 exchanged; the 14-segment VK16K33 bit planes hold bits 0..14 of
\* g whatever has_dot is, and the call raises IndexError exactly when g has
\* bit 15.
C4_RoundTrip ==
    GlyphOnZeroBuffer
    => IF driver = "HT16K33Segment"
       THEN /\ last.raised = "none"
            /\ buffer[DigitIndex[last.digit + 1]]
                 = (IF last.has_dot THEN WithBit(last.num, 7) ELSE last.num)
       ELSE IF is_ht16k33
       THEN /\ last.raised = "none"
            /\ ReadBack(buffer, last.digit)
                 = Exchanged(IF last.has_dot THEN WithBit(last.num, 14) ELSE last.num,
                             11, 13)
       ELSE /\ Gathered(buffer, last.digit, 0) = last.num % 32768
            /\ (last.raised = "IndexError") = (Bit(last.num, 15) = 1)
            /\ last.raised \in {"none", "IndexError"}

\* C4 happens: HT16K33 mode, glyph 0x0849 with the dot written to digit 1 of
\* a buffer that clear() has emptied; bit 11 is stored as bit 13
C4_Witness ==
    /\ GlyphOnZeroBuffer
    /\ driver = "HT16K33Segment14"
    /\ is_ht16k33
    /\ calls = 3
    /\ last.num = 2121
    /\ last.digit = 1
    /\ last.has_dot
    /\ buffer[2] = 73
    /\ buffer[3] = 96

\* C5: in the 7-segment driver, update() is equivalent to draw(): from the
\* same buffer and rotation flag it transmits the payload draw() transmits
\* and leaves the buffer draw() leaves.
C5_UpdateEquivalentToDraw ==
    (driver = "HT16K33Segment" /\ last.op = "update")
    => /\ buffer = HT16K33Segment_draw(pre, is_rotated)
       /\ written = HT16K33_render(address, HT16K33Segment_draw(pre, is_rotated))

\* A digit byte as rotation shows it: bits 0-2 moved to bits 3-5, bits 3-5
\* moved to bits 0-2, bits 6-7 kept
Turned(x) == ((x % 8) * 8) + ((x \div 8) % 8) + ((x \div 64) * 64)

\* The buffer as the rotated layout shows it: POS[i] holds the turned byte of
\* POS[3-i], the 12 other bytes are unchanged
Transformed(buf) ==
    [j \in 0..15 |->
        IF \E i \in 0..3 : DigitIndex[i + 1] = j
        THEN Turned(buf[DigitIndex[4 - (CHOOSE i \in 0..3 : DigitIndex[i + 1] = j)]])
        ELSE buf[j]]

\* The 17 bytes of a payload that holds buf
Payload(buf) == <<0>> \o [i \in 1..16 |-> buf[i - 1]]

\* C6: in the 7-segment driver, rotate() changes no buffer byte and transmits
\* nothing; the flag is set exactly after an odd number of rotate() calls; a
\* draw() after an odd number transmits the transformed pre-draw buffer, and
\* after an even number it transmits the buffer as it is and leaves it
\* unchanged.
C6_RotateTakesEffectAtDraw ==
    driver = "HT16K33Segment"
    => /\ is_rotated = (rotations % 2 = 1)
       /\ last.op = "rotate" => buffer = pre /\ written = <<>>
       /\ last.op = "draw"
            => /\ Len(written) = 1
               /\ written[1].data
                    = Payload(IF rotations % 2 = 1 THEN Transformed(pre) ELSE pre)
               /\ rotations % 2 = 0 => buffer = pre

\* C6 happens: draw() after one rotate() sends the byte 0x4B of digit 0 as
\* 0x59 at digit 3
C6_Witness ==
    /\ driver = "HT16K33Segment"
    /\ last.op = "draw"
    /\ rotations = 1
    /\ pre[0] = 75
    /\ pre[8] = 0
    /\ written[1].data[10] = 89
    /\ written[1].data[2] = 0

\* The last call was a 14-segment set_glyph, set_character or set_code that
\* passed its checks with has_dot=True
DotRequested ==
    /\ driver = "HT16K33Segment14"
    /\ last.op \in {"set_glyph", "set_character", "set_code"}
    /\ last.has_dot
    /\ ~Rejected

\* C7 as stated: under either convention a 14-segment set_glyph,
\* set_character or set_code with has_dot=True that returns leaves bit 14 of
\* the digit set: bit 6 of buffer[2d+1] in HT16K33 mode, bit d+4 of
\* buffer[14] in VK16K33 mode.
C7_DotLitAsStated ==
    (DotRequested /\ last.raised = "none")
    => IF is_ht16k33 THEN Bit(buffer[2 * last.digit + 1], 6) = 1
       ELSE Bit(buffer[14], last.digit + 4) = 1

\* C7 amended: in HT16K33 mode such a call returns with bit 6 of buffer[2d+1]
\* set.  In VK16K33 mode has_dot is ignored: bit d+4 of buffer[14] is set
\* after the call exactly when it was set before or the glyph itself has
\* bit 14 (no charset pattern has).
C7_DotLit ==
    DotRequested
    => IF is_ht16k33
       THEN last.raised = "none" /\ Bit(buffer[2 * last.digit + 1], 6) = 1
       ELSE (Bit(buffer[14], last.digit + 4) = 1)
              = \/ Bit(pre[14], last.digit + 4) = 1
                \/ last.op = "set_glyph" /\ Bit(last.num, 14) = 1

\* C7 happens: HT16K33 mode, set_character('m', 3, True) lights the dot of
\* digit 3 on a buffer an earlier call has written
C7_Witness ==
    /\ DotRequested
    /\ is_ht16k33
    /\ last.op = "set_character"
    /\ last.digit = 3
    /\ pre # ZeroBuffer
    /\ Bit(pre[7], 6) = 0
    /\ Bit(buffer[7], 6) = 1

\* Buffers a and b agree on every bit but bit i of byte j
SameBut(a, b, j, i) ==
    /\ \A k \in 0..15 : k # j => a[k] = b[k]
    /\ \A n \in 0..7 : n # i => Bit(a[j], n) = Bit(b[j], n)

\* C8: in the 14-segment driver, set_decimal leaves the buffer unchanged in
\* HT16K33 mode; in VK16K33 mode set_decimal(True) sets bit 0 of buffer[3],
\* set_decimal(False) clears that bit, and both leave every other bit.
C8_SetDecimalSetsAndClears ==
    (driver = "HT16K33Segment14" /\ last.op = "set_decimal")
    => IF is_ht16k33 THEN buffer = pre
       ELSE /\ Bit(buffer[3], 0) = (IF last.has_dot THEN 1 ELSE 0)
            /\ SameBut(buffer, pre, 3, 0)

\* C9: draw() and update() on either driver perform exactly one transport
\* write, to the configured address, with a payload of 17 bytes: 0x00, then
\* the 16 buffer bytes as they stand at transmission; on the 14-segment
\* driver the buffer is left unchanged.
C9_RenderWritesBufferOnce ==
    last.op \in {"draw", "update"}
    => /\ last.raised = "none"
       /\ Len(written) = 1
       /\ written[1].address = address
       /\ Len(written[1].data) = 17
       /\ written[1].data[1] = 0
       /\ \A i \in 0..15 : written[1].data[i + 2] = buffer[i]
       /\ driver = "HT16K33Segment14" => buffer = pre

\* C9 happens: a render of a buffer that an earlier call has written
C9_Witness ==
    /\ last.op \in {"draw", "update"}
    /\ pre # ZeroBuffer
    /\ Len(written) = 1
    /\ \E i \in 0..15 : written[1].data[i + 2] # 0

\* C10: in HT16K33 mode _set_digit(v, d, has_dot) sets buffer[2d] to the low
\* byte of v' and buffer[2d+1] to the high byte of v' with its bits 3 and 5
\* exchanged, where v' is v OR 0x4000 when has_dot and v otherwise, and
\* leaves the other 14 bytes.
C10_DigitWriterHT16K33 ==
    (last.op = "_set_digit" /\ is_ht16k33)
    => LET v == IF last.has_dot THEN WithBit(last.num, 14) ELSE last.num
       IN  /\ last.raised = "none"
           /\ buffer[2 * last.digit] = v % 256
           /\ buffer[2 * last.digit + 1] = Exchanged((v \div 256) % 256, 3, 5)
           /\ \A k \in 0..15 :
                k \notin {2 * last.digit, 2 * last.digit + 1} => buffer[k] = pre[k]

\* C10 happens: _set_digit(0x08A5, 2, True) on a buffer that holds another
\* digit stores 0xA5 and 0x60
C10_Witness ==
    /\ last.op = "_set_digit"
    /\ is_ht16k33
    /\ last.num = 2213
    /\ last.digit = 2
    /\ last.has_dot
    /\ pre # ZeroBuffer
    /\ buffer[4] = 165
    /\ buffer[5] = 96

\* The last call was a buffer writer of the public interface with arguments
\* that pass every check of its method
AcceptedWrite ==
    /\ last.op \in {"set_glyph", "set_number", "set_character", "set_code",
                    "set_colon", "set_decimal"}
    /\ ~Rejected

\* C11: a set_glyph, set_number, set_character, set_code, set_colon or
\* set_decimal call whose arguments pass the method's checks returns, with no
\* index error and no partly written buffer, and the buffer keeps its 16
\* bytes; in particular 14-segment set_glyph with any glyph in [0, 0xFFFF)
\* in VK16K33 mode.
C11_AcceptedCallCompletes ==
    /\ DOMAIN buffer = 0..15
    /\ AcceptedWrite => last.raised = "none"

\* The step is a draw() call that follows a draw() call, the rotation flag set
SecondRotatedDraw ==
    /\ driver = "HT16K33Segment"
    /\ is_rotated
    /\ last.op = "draw"
    /\ last'.op = "draw"
    /\ calls' = calls + 1

\* C12: in the 7-segment driver with the rotation flag set, the second of two
\* consecutive draw() calls leaves the buffer as it was before the first; the
\* first transmits the rotated layout, the second the original one, and the
\* two payloads differ whenever the transform changes a digit byte.
C12_RotatedDrawIsInvolution ==
    [][SecondRotatedDraw
        => /\ buffer' = pre
           /\ written[1].data = Payload(Transformed(pre))
           /\ written'[1].data = Payload(pre)
           /\ (Transformed(pre) # pre) => written'[1].data # written[1].data]_vars

\* C12 happens: set_glyph(0x4B, 0), rotate(), draw(), draw() in some order of
\* the first two; the first draw moved the glyph to digit 3 as 0x59, the
\* second moved it back to digit 0 as 0x4B and sent it there
C12_Witness ==
    /\ driver = "HT16K33Segment"
    /\ is_rotated
    /\ last.op = "draw"
    /\ calls = 4
    /\ rotations = 1
    /\ pre[0] = 0
    /\ pre[8] = 89
    /\ buffer[0] = 75
    /\ buffer[8] = 0
    /\ written[1].data[2] = 75

====
